---------------------------- MODULE Spec2Model ----------------------------
(***************************************************************************)
(* Model of the registry's persistence core:                               *)
(*   internal/database/postgres.go  (List, Get*, CreateServer,             *)
(*                                   WithPublishLock, hashServerName)      *)
(*   the publish callback run under WithPublishLock (service layer, not    *)
(*   part of the sources at hand: modelled from the specification and      *)
(*   docs/explanations/versioning.md).                                     *)
(*                                                                         *)
(* Strings that the code inspects byte by byte are sequences: a server     *)
(* name is a sequence of byte values, a version string a sequence of       *)
(* one-character strings.  A version_id is a positive integer (the order   *)
(* of the integers stands for the order of the column), 0 is the empty     *)
(* string / nil pointer.                                                   *)
(***************************************************************************)
EXTENDS Integers, Sequences, FiniteSets, TLC

\* ------------------------------------------------------------------ bounds
\* version ids available to publishers: 1..MaxVid
MaxVid == 3
\* publish attempts started in one behaviour of concurrent publishers (the
\* clock publishedAt is read from stops there)
MaxClock == 2
\* publish attempts started in one behaviour of a single publisher
MaxSeq == 3
\* largest page size tried by a scan
MaxLimit == 3
\* rows of the largest table a scan runs over
MaxRows == 11
\* publish attempts started while a scan runs
MaxIns == 1

\* ------------------------------------------------------- program constants
\* List: "if limit <= 0 { limit = 10 }"
DefaultLimit == 10
\* NewPostgreSQL: config.MaxConns
MaxConns == 30

\* ---------------------------------------------------------------- helpers
Max(S) == CHOOSE x \in S : \A y \in S : y <= x
Min(S) == CHOOSE x \in S : \A y \in S : x <= y

RECURSIVE SortedSeq(_)
\* the elements of a finite set of integers, ascending
SortedSeq(S) == IF S = {} THEN <<>> ELSE <<Min(S)>> \o SortedSeq(S \ {Min(S)})

Prefix(s, n) == IF Len(s) <= n THEN s ELSE SubSeq(s, 1, n)

Range(s) == {s[i] : i \in 1..Len(s)}

\* --------------------------------------------------- hashServerName (FNV-1a)
\* 64-bit words are little-endian sequences of 8 bytes, so that no product
\* leaves the range of 32-bit integers.
RECURSIVE Xor8(_, _, _)
Xor8(x, y, n) ==
    IF n = 0 THEN 0
    ELSE (((x % 2) + (y % 2)) % 2) + 2 * Xor8(x \div 2, y \div 2, n - 1)

\* const offset64 = 14695981039346656037 = 0xcbf29ce484222325
offset64 == <<37, 35, 34, 132, 228, 156, 242, 203>>
\* const prime64 = 1099511628211 = 0x00000100000001b3
prime64 == <<179, 1, 0, 0, 0, 1, 0, 0>>

RECURSIVE ConvSum(_, _, _, _)
\* sum of a[i] * b[k + 1 - i] for i in 1..j
ConvSum(a, b, k, j) ==
    IF j = 0 THEN 0 ELSE (a[j] * b[k + 1 - j]) + ConvSum(a, b, k, j - 1)

RECURSIVE MulCarry(_, _, _, _)
MulCarry(a, b, k, carry) ==
    IF k > 8 THEN <<>>
    ELSE LET t == ConvSum(a, b, k, k) + carry
         IN  <<(t % 256)>> \o MulCarry(a, b, k + 1, t \div 256)

\* hash *= prime64 on uint64: the product modulo 2^64
Mul64(a, b) == MulCarry(a, b, 1, 0)

\* hash ^= uint64(name[i])
XorByte(h, byte) == [h EXCEPT ![1] = Xor8(h[1], byte, 8)]

RECURSIVE FnvLoop(_, _, _)
FnvLoop(hash, name, i) ==
    IF i > Len(name) THEN hash
    ELSE FnvLoop(Mul64(XorByte(hash, name[i]), prime64), name, i + 1)

\* the loop over the bytes of the name never entered
hashServerNameNoLoop(name) == [offset64 EXCEPT ![8] = offset64[8] % 128]

\* int64(hash & 0x7FFFFFFFFFFFFFFF)
hashServerName(name) ==
    LET hash == FnvLoop(offset64, name, 1)
    IN  [hash EXCEPT ![8] = hash[8] % 128]

\* ------------------------------------------------------ Version Resolver
\* The resolver belongs to the publish callback (service layer).  It is
\* modelled from the specification, section 4.3, and from
\* docs/explanations/versioning.md.
Digits == {"0", "1", "2", "3", "4", "5", "6", "7", "8", "9"}

\* the identifier characters of a semantic version, in ASCII order
AsciiOrder ==
    <<"-", "0", "1", "2", "3", "4", "5", "6", "7", "8", "9",
      "A", "B", "C", "D", "E", "F", "G", "H", "I", "J", "K", "L", "M",
      "N", "O", "P", "Q", "R", "S", "T", "U", "V", "W", "X", "Y", "Z",
      "a", "b", "c", "d", "e", "f", "g", "h", "i", "j", "k", "l", "m",
      "n", "o", "p", "q", "r", "s", "t", "u", "v", "w", "x", "y", "z">>

Ord(c) == CHOOSE i \in 1..Len(AsciiOrder) : AsciiOrder[i] = c

DigitVal(c) == Ord(c) - 2

\* index of the first ch in s, 0 when there is none
IndexOf(s, ch) ==
    IF \E i \in 1..Len(s) : s[i] = ch
    THEN Min({i \in 1..Len(s) : s[i] = ch})
    ELSE 0

RECURSIVE Split(_, _)
\* s cut at every ch
Split(s, ch) ==
    LET i == IndexOf(s, ch)
    IN  IF i = 0 THEN <<s>>
        ELSE <<SubSeq(s, 1, i - 1)>> \o Split(SubSeq(s, i + 1, Len(s)), ch)

IsDigits(s) == Len(s) > 0 /\ \A i \in 1..Len(s) : s[i] \in Digits

\* a numeric identifier: digits, without a leading zero
IsNumericId(s) == IsDigits(s) /\ (Len(s) > 1 => s[1] # "0")

IsIdent(s) == Len(s) > 0 /\ \A i \in 1..Len(s) : s[i] \in Range(AsciiOrder)

\* a prerelease identifier: alphanumerics and hyphen; digits only => no leading zero
IsPreId(s) == IsIdent(s) /\ (IsDigits(s) => IsNumericId(s))

RECURSIVE NumVal(_)
NumVal(s) ==
    IF Len(s) = 0 THEN 0
    ELSE 10 * NumVal(SubSeq(s, 1, Len(s) - 1)) + DigitVal(s[Len(s)])

\* major.minor.patch [-prerelease] [+build]
ParseSemver(v) ==
    LET plus  == IndexOf(v, "+")
        main  == IF plus = 0 THEN v ELSE SubSeq(v, 1, plus - 1)
        build == IF plus = 0 THEN <<>> ELSE Split(SubSeq(v, plus + 1, Len(v)), ".")
        dash  == IndexOf(main, "-")
        core  == Split(IF dash = 0 THEN main ELSE SubSeq(main, 1, dash - 1), ".")
        pre   == IF dash = 0 THEN <<>>
                 ELSE Split(SubSeq(main, dash + 1, Len(main)), ".")
        ok    == /\ Len(core) = 3
                 /\ \A i \in 1..Len(core) : IsNumericId(core[i])
                 /\ \A i \in 1..Len(pre) : IsPreId(pre[i])
                 /\ \A i \in 1..Len(build) : IsIdent(build[i])
    IN  IF ok
        THEN [ok |-> TRUE, major |-> NumVal(core[1]), minor |-> NumVal(core[2]),
              patch |-> NumVal(core[3]), pre |-> pre]
        ELSE [ok |-> FALSE, major |-> 0, minor |-> 0, patch |-> 0, pre |-> <<>>]

IsSemanticVersion(v) == ParseSemver(v).ok

CmpInt(a, b) == IF a < b THEN -1 ELSE IF a > b THEN 1 ELSE 0

RECURSIVE CmpAscii(_, _)
\* byte-wise order of two identifiers
CmpAscii(a, b) ==
    IF Len(a) = 0 /\ Len(b) = 0 THEN 0
    ELSE IF Len(a) = 0 THEN -1
    ELSE IF Len(b) = 0 THEN 1
    ELSE IF a[1] # b[1] THEN CmpInt(Ord(a[1]), Ord(b[1]))
    ELSE CmpAscii(Tail(a), Tail(b))

\* numeric identifiers compare as numbers and sort below alphanumeric ones
CmpPreId(a, b) ==
    IF IsDigits(a) /\ IsDigits(b) THEN CmpInt(NumVal(a), NumVal(b))
    ELSE IF IsDigits(a) THEN -1
    ELSE IF IsDigits(b) THEN 1
    ELSE CmpAscii(a, b)

RECURSIVE CmpPreIds(_, _)
\* identifier by identifier; a longer list wins when the common part is equal
CmpPreIds(a, b) ==
    IF Len(a) = 0 /\ Len(b) = 0 THEN 0
    ELSE IF Len(a) = 0 THEN -1
    ELSE IF Len(b) = 0 THEN 1
    ELSE IF CmpPreId(a[1], b[1]) # 0 THEN CmpPreId(a[1], b[1])
    ELSE CmpPreIds(Tail(a), Tail(b))

\* a version with a prerelease is lower than the same version without one
CmpPrerelease(a, b) ==
    IF Len(a) = 0 /\ Len(b) = 0 THEN 0
    ELSE IF Len(a) = 0 THEN 1
    ELSE IF Len(b) = 0 THEN -1
    ELSE CmpPreIds(a, b)

\* semantic-version precedence of two versions that parse: -1, 0, 1
CompareSemanticVersions(v1, v2) ==
    LET a == ParseSemver(v1)
        b == ParseSemver(v2)
    IN  IF a.major # b.major THEN CmpInt(a.major, b.major)
        ELSE IF a.minor # b.minor THEN CmpInt(a.minor, b.minor)
        ELSE IF a.patch # b.patch THEN CmpInt(a.patch, b.patch)
        ELSE CmpPrerelease(a.pre, b.pre)

\* Specification 4.3: whether the new record is latest, given the version of
\* the current latest record (hasLatest = FALSE when the entry has none).
\* A new version that parses against a latest that does not: the new one wins
\* (versioning.md: "semver version is considered higher").
IsNewLatest(newVersion, hasLatest, latestVersion) ==
    IF ~hasLatest THEN TRUE
    ELSE IF ~IsSemanticVersion(newVersion) THEN TRUE
    ELSE IF ~IsSemanticVersion(latestVersion) THEN TRUE
    ELSE CompareSemanticVersions(newVersion, latestVersion) > 0

\* ------------------------------------------------------------ documents
\* A stored document (the JSONB value of a row) keeps the fields the queries
\* read:  name, version, remotes[].url, and the registry metadata
\* _meta."io.modelcontextprotocol.registry/official".{serverId, versionId,
\* isLatest, publishedAt, updatedAt}.
NameA == <<97>>
NameAb == <<65, 98>>
Names == {NameA, NameAb}

\* Entries (server ids) and the name each is published under.
Entries == {"e1", "e2"}
NameOf(e) == IF e = "e1" THEN NameA ELSE NameAb

V100 == <<"1", ".", "0", ".", "0">>
V200 == <<"2", ".", "0", ".", "0">>
V1000 == <<"1", "0", ".", "0", ".", "0">>
V100alpha == <<"1", ".", "0", ".", "0", "-", "a", "l", "p", "h", "a">>
Vv11 == <<"v", "1", ".", "1">>
Vdate == <<"2", "0", "2", "1", ".", "0", "3", ".", "1", "5">>
V100build == <<"1", ".", "0", ".", "0", "+", "b">>
Versions == {V100, V200, V1000, V100alpha, V100build, Vv11, Vdate}
\* the version strings concurrent publishers draw from
ConcVersions == {V100, V200}

\* nil *ServerJSON
NoDoc ==
    [name |-> <<>>, version |-> <<>>, remotes |-> {}, serverId |-> "",
     versionId |-> 0, isLatest |-> FALSE, publishedAt |-> 0, updatedAt |-> 0]

EmptyTable == [k \in {} |-> NoDoc]

\* errors, by the text or sentinel the code returns ("" is nil)
ErrNotFound == "record not found"
ErrCtx == "context canceled"

\* value->'version_detail'->>'version': the values found at that path (none
\* when the document has no version_detail object, and SQL compares NULL)
VersionDetailVersion(d) ==
    IF "version_detail" \in DOMAIN d THEN {d.version_detail} ELSE {}

Fold(b) == IF b >= 65 /\ b <= 90 THEN b + 32 ELSE b

RECURSIVE Like(_, _)
\* s ILIKE pat: % any run, _ any one byte, backslash quotes the next byte
Like(s, pat) ==
    IF Len(pat) = 0 THEN Len(s) = 0
    ELSE IF pat[1] = 37
         THEN Like(s, Tail(pat)) \/ (Len(s) > 0 /\ Like(Tail(s), pat))
    ELSE IF Len(s) = 0 THEN FALSE
    ELSE IF pat[1] = 95 THEN Like(Tail(s), Tail(pat))
    ELSE IF pat[1] = 92 /\ Len(pat) > 1
         THEN Fold(pat[2]) = Fold(s[1]) /\ Like(Tail(s), Tail(Tail(pat)))
    ELSE Fold(pat[1]) = Fold(s[1]) /\ Like(Tail(s), Tail(pat))

\* A filter is a record of its non-nil fields, and of nil, which is TRUE
\* for the nil *ServerFilter alone.
NilFilter == [nil |-> TRUE]
NoFilter == [nil |-> FALSE]
Has(f, field) == ~f.nil /\ field \in DOMAIN f

\* List: the WHERE conditions of the filter, joined by AND
Where(filter, d) ==
    /\ Has(filter, "Name") => d.name = filter.Name
    /\ Has(filter, "RemoteURL") => \E u \in d.remotes : u = filter.RemoteURL
    /\ Has(filter, "UpdatedSince") => d.updatedAt > filter.UpdatedSince
    /\ Has(filter, "SubstringName") =>
           Like(d.name, <<37>> \o filter.SubstringName \o <<37>>)
    /\ Has(filter, "Version") =>
           \E x \in VersionDetailVersion(d) : x = filter.Version
    /\ Has(filter, "IsLatest") => d.isLatest = filter.IsLatest

\* uuid.Parse: version ids and cursors are positive integers when they are
\* well-formed identifiers; a negative integer is a malformed string
IsUuid(c) == c > 0

\* a resumed scan that also returns the cursor row again
CursorCondInclusive(cursor, k) == cursor # 0 => k >= cursor

\* "version_id > $n", added when cursor != ""
CursorCond(cursor, k) == cursor # 0 => k > cursor

\* a page that reports a cursor only when more rows than the limit came back
NextCursorStrict(docs, limit) ==
    IF Len(docs) > 0 /\ Len(docs) > limit
    THEN docs[Len(docs)].versionId
    ELSE 0

\* "Determine next cursor using registry metadata VersionID"
NextCursor(docs, limit) ==
    IF Len(docs) > 0 /\ Len(docs) >= limit
    THEN IF "versionId" \in DOMAIN docs[Len(docs)]
         THEN docs[Len(docs)].versionId
         ELSE 0
    ELSE 0

\* the version_ids of the rows List selects: WHERE ... ORDER BY version_id LIMIT
ListKeys(T, filter, cursor, limit) ==
    LET lim == IF limit <= 0 THEN DefaultLimit ELSE limit
    IN  Prefix(SortedSeq({k \in DOMAIN T :
                             Where(filter, T[k]) /\ CursorCond(cursor, k)}), lim)

\* PostgreSQL.List
List(T, ctxDone, filter, cursor, limit) ==
    LET lim  == IF limit <= 0 THEN DefaultLimit ELSE limit
        keys == ListKeys(T, filter, cursor, limit)
        docs == [i \in 1..Len(keys) |-> T[keys[i]]]
    IN  IF ctxDone
        THEN [err |-> ErrCtx, results |-> <<>>, nextCursor |-> 0]
        ELSE IF cursor # 0 /\ ~IsUuid(cursor)
        THEN [err |-> "invalid cursor format", results |-> <<>>, nextCursor |-> 0]
        ELSE [err |-> "", results |-> docs, nextCursor |-> NextCursor(docs, lim)]

\* PostgreSQL.GetByVersionID
GetByVersionID(T, ctxDone, versionID) ==
    IF ctxDone THEN [err |-> ErrCtx, doc |-> NoDoc]
    ELSE IF versionID \in DOMAIN T THEN [err |-> "", doc |-> T[versionID]]
    ELSE [err |-> ErrNotFound, doc |-> NoDoc]

\* PostgreSQL.GetByServerID: the outcomes the query can have (ORDER BY
\* publishedAt DESC LIMIT 1 picks any row with the greatest publishedAt)
GetByServerID(T, ctxDone, serverID) ==
    LET rows == {k \in DOMAIN T : T[k].serverId = serverID /\ T[k].isLatest}
        top  == {k \in rows : \A j \in rows : T[j].publishedAt <= T[k].publishedAt}
    IN  IF ctxDone THEN {[err |-> ErrCtx, doc |-> NoDoc]}
        ELSE IF rows = {} THEN {[err |-> ErrNotFound, doc |-> NoDoc]}
        ELSE {[err |-> "", doc |-> T[k]] : k \in top}

\* the lookup reading the version at value->'version_detail'->>'version'
GetByServerIDAndVersionDetail(T, ctxDone, serverID, version) ==
    LET rows == {k \in DOMAIN T :
                    /\ T[k].serverId = serverID
                    /\ \E x \in VersionDetailVersion(T[k]) : x = version}
    IN  IF ctxDone THEN {[err |-> ErrCtx, doc |-> NoDoc]}
        ELSE IF rows = {} THEN {[err |-> ErrNotFound, doc |-> NoDoc]}
        ELSE {[err |-> "", doc |-> T[k]] : k \in rows}

\* PostgreSQL.GetByServerIDAndVersion: the outcomes the query can have
\* (LIMIT 1 without ORDER BY picks any matching row)
GetByServerIDAndVersion(T, ctxDone, serverID, version) ==
    LET rows == {k \in DOMAIN T : T[k].serverId = serverID /\ T[k].version = version}
    IN  IF ctxDone THEN {[err |-> ErrCtx, doc |-> NoDoc]}
        ELSE IF rows = {} THEN {[err |-> ErrNotFound, doc |-> NoDoc]}
        ELSE {[err |-> "", doc |-> T[k]] : k \in rows}

RECURSIVE DescOrders(_, _)
\* the sequences of the keys K sorted by publishedAt descending
DescOrders(T, K) ==
    IF K = {} THEN {<<>>}
    ELSE LET top == {k \in K : \A j \in K : T[j].publishedAt <= T[k].publishedAt}
         IN  UNION {{<<k>> \o rest : rest \in DescOrders(T, K \ {k})} : k \in top}

\* a lookup that returns an empty list for an entry without rows
GetAllVersionsOrEmpty(T, ctxDone, serverID) ==
    LET rows == {k \in DOMAIN T : T[k].serverId = serverID}
    IN  IF ctxDone THEN {[err |-> ErrCtx, docs |-> <<>>]}
        ELSE {[err |-> "", docs |-> [i \in 1..Len(o) |-> T[o[i]]]] :
                 o \in DescOrders(T, rows)}

\* PostgreSQL.GetAllVersionsByServerID: the outcomes the query can have
GetAllVersionsByServerID(T, ctxDone, serverID) ==
    LET rows == {k \in DOMAIN T : T[k].serverId = serverID}
    IN  IF ctxDone THEN {[err |-> ErrCtx, docs |-> <<>>]}
        ELSE IF rows = {} THEN {[err |-> ErrNotFound, docs |-> <<>>]}
        ELSE {[err |-> "", docs |-> [i \in 1..Len(o) |-> T[o[i]]]] :
                 o \in DescOrders(T, rows)}

\* ------------------------------------------------------------------ state
\* the sentinel UpdateServer wraps with %w, and the error uuid.Parse returns
ErrInvalidInput == "invalid input"
ErrUuid == "invalid UUID"
ErrCursor == "invalid cursor format"
ErrVersionMismatch ==
    "io.modelcontextprotocol.registry/official.version_id must match path id"

\* the errors errors.Is finds in e: e and what it wraps with %w
Chain(e) ==
    IF e = ErrCursor THEN {ErrCursor, ErrUuid}
    ELSE IF e = ErrVersionMismatch THEN {ErrVersionMismatch, ErrInvalidInput}
    ELSE {e}

\* errors.Is(e, target)
Is(e, target) == target \in Chain(e)

\* an update that stores the document under the id when no row has it
UpdateServerUpsert(T, ctxDone, id, server) ==
    IF ctxDone THEN [err |-> ErrCtx, table |-> T]
    ELSE IF "versionId" \notin DOMAIN server \/ server.versionId # id
    THEN [err |-> ErrVersionMismatch, table |-> T]
    ELSE [err |-> "",
          table |-> [k \in DOMAIN T \cup {id} |-> IF k = id THEN server ELSE T[k]]]

\* an update that stores whatever document it is given under id
UpdateServerUnchecked(T, ctxDone, id, server) ==
    IF ctxDone THEN [err |-> ErrCtx, table |-> T]
    ELSE IF id \notin DOMAIN T THEN [err |-> ErrNotFound, table |-> T]
    ELSE [err |-> "", table |-> [T EXCEPT ![id] = server]]

\* PostgreSQL.UpdateServer: the error and the table it leaves
UpdateServer(T, ctxDone, id, server) ==
    IF ctxDone THEN [err |-> ErrCtx, table |-> T]
    ELSE IF "versionId" \notin DOMAIN server \/ server.versionId # id
    THEN [err |-> ErrVersionMismatch, table |-> T]
    ELSE IF id \notin DOMAIN T THEN [err |-> ErrNotFound, table |-> T]
    ELSE [err |-> "", table |-> [T EXCEPT ![id] = server]]

Procs == {"p1", "p2"}

VARIABLES
    servers,    \* the servers table as committed: version_id -> value
    snapshot,   \* history: the table as the last committed CreateServer left it
    now,        \* the clock publishedAt is read from
    pc,         \* publisher -> the statement it is at
    doc,        \* publisher -> the document it publishes
    old,        \* publisher -> oldLatestVersionID (0 is nil)
    ctxDone,    \* publisher -> its context has been cancelled
    err,        \* publisher -> the error its call ends with ("" is nil)
    before,     \* history: publisher -> the table when its fn began
    lastRead,   \* the read made by the last step, NoRead when it made none
    scan,       \* the cursor-driven scan of SpecList
    upd,        \* the editor: the record it has read and will write back
    crowd       \* publishers of one name, counted by the statement they are at

vars ==
    <<servers, snapshot, now, pc, doc, old, ctxDone, err, before, lastRead, scan,
      upd, crowd>>
pubVars == <<servers, snapshot, now, pc, doc, old, ctxDone, err, before>>

NoRead == [op |-> "none", arg |-> "", res |-> {}]

\* the editor holds no record
NoUpd == [id |-> 0, doc |-> NoDoc]

\* no publisher of the name has called yet
NoCrowd == [started |-> 0, wpl_begin |-> 0, wpl_lock |-> 0, holder |-> "none"]

NoScan ==
    [filter |-> NilFilter, limit |-> 0, prev |-> 0, cursor |-> 0,
     seen |-> <<>>, calls |-> 0, done |-> FALSE, page |-> <<>>, next |-> 0,
     start |-> EmptyTable]

\* statements executed while the WithPublishLock transaction is open
WplTxStages ==
    {"wpl_lock", "fn_dup", "fn_latest", "cs_ctx", "cs_begin", "cs_unmark",
     "cs_insert", "cs_commit", "wpl_ret", "wpl_commit"}
\* a session-level lock: kept after the call has ended
LockedStagesKept == (WplTxStages \ {"wpl_lock"}) \cup {"done"}
\* statements executed after pg_advisory_xact_lock has returned
LockedStages == WplTxStages \ {"wpl_lock"}
\* the callback fn
FnStages == LockedStages \ {"wpl_ret", "wpl_commit"}
\* statements executed while the CreateServer transaction is open
CsTxStages == {"cs_unmark", "cs_insert", "cs_commit"}

\* connections of the pool in use: one per open transaction
ConnsInUse ==
    Cardinality({p \in Procs : pc[p] \in WplTxStages})
        + Cardinality({p \in Procs : pc[p] \in CsTxStages})

\* a key taken from the call, not from the name
lockIDPerCall(p) == hashServerName(<<doc[p].publishedAt>>)

\* hashServerName of the names publishers use, computed once
NameHash == [n \in Names |-> hashServerName(n)]

\* lockID := hashServerName(serverName)
lockID(p) == NameHash[doc[p].name]

\* no lock at all
LockFreeAlways(p) == TRUE

\* pg_advisory_xact_lock($1) returns once no other transaction holds the key
LockFree(p) ==
    \A q \in Procs \ {p} : pc[q] \in LockedStages => lockID(q) # lockID(p)

Init ==
    /\ servers = EmptyTable
    /\ snapshot = EmptyTable
    /\ now = 0
    /\ pc = [p \in Procs |-> "idle"]
    /\ doc = [p \in Procs |-> NoDoc]
    /\ old = [p \in Procs |-> 0]
    /\ ctxDone = [p \in Procs |-> FALSE]
    /\ err = [p \in Procs |-> ""]
    /\ before = [p \in Procs |-> EmptyTable]
    /\ lastRead = NoRead
    /\ scan = NoScan
    /\ upd = NoUpd
    /\ crowd = NoCrowd

\* a step that is no read and no step of the scan
Quiet == lastRead' = NoRead /\ UNCHANGED <<scan, upd, crowd>>

\* the call ends with error e
Fail(p, e) ==
    /\ pc' = [pc EXCEPT ![p] = "done"]
    /\ err' = [err EXCEPT ![p] = e]

\* fn returns error e to WithPublishLock
FnFail(p, e) ==
    /\ pc' = [pc EXCEPT ![p] = "wpl_ret"]
    /\ err' = [err EXCEPT ![p] = e]

Goto(p, stage) ==
    /\ pc' = [pc EXCEPT ![p] = stage]
    /\ UNCHANGED err

\* The version ids a new document may carry.  Version ids are opaque: a new
\* one is the id of a stored row, or the id a running call carries, or the
\* least id that is neither.
NewIds(T) ==
    LET used == DOMAIN T \cup ({doc[q].versionId : q \in Procs} \ {0})
    IN  (used \cup {Min((1..(MaxVid + 1)) \ used)}) \cap (1..MaxVid)

\* A publish request arrives: the service stamps the document with its
\* entry, a version id and the time, and calls WithPublishLock(name, fn).
StartPublish(p, V, maxClock) ==
    /\ pc[p] = "idle"
    /\ now < maxClock
    /\ \E e \in Entries, v \in V, id \in NewIds(servers) :
          doc' = [doc EXCEPT ![p] =
                    [name |-> NameOf(e), version |-> v, remotes |-> {},
                     serverId |-> e, versionId |-> id, isLatest |-> FALSE,
                     publishedAt |-> now + 1, updatedAt |-> now + 1]]
    /\ now' = now + 1
    /\ Goto(p, "wpl_ctx")
    /\ UNCHANGED <<servers, snapshot, old, ctxDone, before>>
    /\ Quiet

\* the caller cancels the context of a running call
Cancel(p) ==
    /\ pc[p] \notin {"idle", "done"}
    /\ ~ctxDone[p]
    /\ ctxDone' = [ctxDone EXCEPT ![p] = TRUE]
    /\ UNCHANGED <<servers, snapshot, now, pc, doc, old, err, before>>
    /\ Quiet

\* a call that goes on to Begin whatever the state of its context
WplCtxUnchecked(p) ==
    /\ pc[p] = "wpl_ctx"
    /\ Goto(p, "wpl_begin")
    /\ UNCHANGED <<servers, snapshot, now, doc, old, ctxDone, before>>
    /\ Quiet

\* WithPublishLock: if ctx.Err() != nil { return ctx.Err() }
WplCtx(p) ==
    /\ pc[p] = "wpl_ctx"
    /\ IF ctxDone[p] THEN Fail(p, ErrCtx) ELSE Goto(p, "wpl_begin")
    /\ UNCHANGED <<servers, snapshot, now, doc, old, ctxDone, before>>
    /\ Quiet

\* WithPublishLock: tx, err := db.pool.Begin(ctx)
WplBegin(p) ==
    /\ pc[p] = "wpl_begin"
    /\ IF ctxDone[p]
       THEN Fail(p, "failed to begin transaction")
       ELSE ConnsInUse < MaxConns /\ Goto(p, "wpl_lock")
    /\ UNCHANGED <<servers, snapshot, now, doc, old, ctxDone, before>>
    /\ Quiet

\* WithPublishLock: tx.Exec(ctx, "SELECT pg_advisory_xact_lock($1)", lockID)
WplLock(p) ==
    /\ pc[p] = "wpl_lock"
    /\ IF ctxDone[p]
       THEN Fail(p, "failed to acquire publish lock")
       ELSE LockFree(p) /\ Goto(p, "fn_dup")
    /\ before' = [before EXCEPT ![p] = servers]
    /\ UNCHANGED <<servers, snapshot, now, doc, old, ctxDone>>
    /\ Quiet

\* fn, first step (specification 4.3, rule 5): a record of the entry that
\* already carries the version string is a conflict, found with
\* getByEntryIdAndVersion before the resolver runs.
FnDup(p) ==
    /\ pc[p] = "fn_dup"
    /\ \E r \in GetByServerIDAndVersion(servers, ctxDone[p],
                                        doc[p].serverId, doc[p].version) :
          IF r.err = "" THEN FnFail(p, "invalid version: duplicate")
          ELSE IF r.err = ErrNotFound THEN Goto(p, "fn_latest")
          ELSE FnFail(p, r.err)
    /\ UNCHANGED <<servers, snapshot, now, doc, old, ctxDone, before>>
    /\ Quiet

\* the resolver's decisions over the version strings publishers use,
\* computed once
Resolved == [n \in Versions |-> [l \in Versions |-> IsNewLatest(n, TRUE, l)]]

\* the Version Resolver as fn calls it
Resolve(newVersion, hasLatest, latestVersion) ==
    IF hasLatest /\ newVersion \in Versions /\ latestVersion \in Versions
    THEN Resolved[newVersion][latestVersion]
    ELSE IsNewLatest(newVersion, hasLatest, latestVersion)

\* fn, second step: look up the current latest record of the entry, let the
\* Version Resolver decide the new record's isLatest, and call
\* create(document, oldLatestVersionId).
FnLatest(p) ==
    /\ pc[p] = "fn_latest"
    /\ \E r \in GetByServerID(servers, ctxDone[p], doc[p].serverId) :
          IF r.err \notin {"", ErrNotFound}
          THEN FnFail(p, r.err) /\ UNCHANGED <<doc, old>>
          ELSE LET hasLatest == r.err = ""
                   newLatest == Resolve(doc[p].version, hasLatest, r.doc.version)
               IN  /\ doc' = [doc EXCEPT ![p].isLatest = newLatest]
                   /\ old' = [old EXCEPT ![p] =
                                IF hasLatest /\ newLatest THEN r.doc.versionId ELSE 0]
                   /\ Goto(p, "cs_ctx")
    /\ UNCHANGED <<servers, snapshot, now, ctxDone, before>>
    /\ Quiet

\* CreateServer up to the transaction: the context check and the checks of
\* the registry metadata
CsCtx(p) ==
    /\ pc[p] = "cs_ctx"
    /\ IF ctxDone[p] THEN FnFail(p, ErrCtx)
       ELSE IF ~({"serverId", "versionId"} \subseteq DOMAIN doc[p])
       THEN FnFail(p, "server must have registry metadata with ServerID and VersionID")
       ELSE IF doc[p].serverId = "" \/ doc[p].versionId = 0
       THEN FnFail(p, "server must have both ServerID and VersionID in registry metadata")
       ELSE Goto(p, "cs_begin")
    /\ UNCHANGED <<servers, snapshot, now, doc, old, ctxDone, before>>
    /\ Quiet

\* CreateServer: tx, err := db.pool.Begin(ctx); the UPDATE is skipped when
\* oldLatestVersionID is nil or empty
CsBegin(p) ==
    /\ pc[p] = "cs_begin"
    /\ IF ctxDone[p]
       THEN FnFail(p, "failed to begin transaction")
       ELSE /\ ConnsInUse < MaxConns
            /\ Goto(p, IF old[p] # 0 THEN "cs_unmark" ELSE "cs_insert")
    /\ UNCHANGED <<servers, snapshot, now, doc, old, ctxDone, before>>
    /\ Quiet

\* an UPDATE whose WHERE matches no row
UnmarkNone(T, id) == T

\* UPDATE servers SET value = jsonb_set(value, {...,isLatest}, 'false')
\* WHERE version_id = $1
Unmark(T, id) ==
    IF id \in DOMAIN T THEN [T EXCEPT ![id].isLatest = FALSE] ELSE T

\* INSERT INTO servers (version_id, value) VALUES ($1, $2)
Insert(T, d) ==
    [k \in DOMAIN T \cup {d.versionId} |-> IF k = d.versionId THEN d ELSE T[k]]

\* the UPDATE sent outside the transaction: it takes effect at once
CsUnmarkAutocommit(p) ==
    /\ pc[p] = "cs_unmark"
    /\ IF ctxDone[p]
       THEN FnFail(p, "failed to unmark previous latest version")
            /\ UNCHANGED servers
       ELSE Goto(p, "cs_insert") /\ servers' = Unmark(servers, old[p])
    /\ UNCHANGED <<snapshot, now, doc, old, ctxDone, before>>
    /\ Quiet

\* CreateServer: tx.Exec(ctx, updateQuery, *oldLatestVersionID); the row
\* changes for others when the transaction commits
CsUnmark(p) ==
    /\ pc[p] = "cs_unmark"
    /\ IF ctxDone[p]
       THEN FnFail(p, "failed to unmark previous latest version")
       ELSE Goto(p, "cs_insert")
    /\ UNCHANGED <<servers, snapshot, now, doc, old, ctxDone, before>>
    /\ Quiet

\* CreateServer: tx.Exec(ctx, insertQuery, versionID, valueJSON).  The
\* statement waits for a transaction that has inserted the same key and is
\* still open, and fails on a key that is committed.
CsInsert(p) ==
    /\ pc[p] = "cs_insert"
    /\ IF ctxDone[p]
       THEN FnFail(p, "failed to insert server")
       ELSE /\ \A q \in Procs \ {p} :
                  pc[q] = "cs_commit" => doc[q].versionId # doc[p].versionId
            /\ IF doc[p].versionId \in DOMAIN servers
               THEN FnFail(p, "failed to insert server")
               ELSE Goto(p, "cs_commit")
    /\ UNCHANGED <<servers, snapshot, now, doc, old, ctxDone, before>>
    /\ Quiet

\* a commit that makes the INSERT durable and loses the UPDATE
CsCommitInsertOnly(p) ==
    /\ pc[p] = "cs_commit"
    /\ IF ctxDone[p]
       THEN FnFail(p, "failed to commit transaction")
            /\ UNCHANGED <<servers, snapshot>>
       ELSE /\ servers' = Insert(servers, doc[p])
            /\ snapshot' = servers'
            /\ FnFail(p, "")
    /\ UNCHANGED <<now, doc, old, ctxDone, before>>
    /\ Quiet

\* CreateServer: tx.Commit(ctx): the UPDATE and the INSERT take effect together
CsCommit(p) ==
    /\ pc[p] = "cs_commit"
    /\ IF ctxDone[p]
       THEN FnFail(p, "failed to commit transaction")
            /\ UNCHANGED <<servers, snapshot>>
       ELSE /\ servers' = Insert(Unmark(servers, old[p]), doc[p])
            /\ snapshot' = servers'
            /\ FnFail(p, "")
    /\ UNCHANGED <<now, doc, old, ctxDone, before>>
    /\ Quiet

\* CreateServer: tx.Commit(ctx) fails in storage; the deferred Rollback
\* discards the UPDATE and the INSERT
CsCommitFails(p) ==
    /\ pc[p] = "cs_commit"
    /\ ~ctxDone[p]
    /\ FnFail(p, "failed to commit transaction")
    /\ UNCHANGED <<servers, snapshot, now, doc, old, ctxDone, before>>
    /\ Quiet

\* a return that wraps fn's error in one of its own
WplRetWrapped(p) ==
    /\ pc[p] = "wpl_ret"
    /\ IF err[p] # "" THEN Fail(p, "publish failed") ELSE Goto(p, "wpl_commit")
    /\ UNCHANGED <<servers, snapshot, now, doc, old, ctxDone, before>>
    /\ Quiet

\* WithPublishLock: if err := fn(ctx); err != nil { return err }; the
\* deferred Rollback ends the transaction and with it the lock
WplRet(p) ==
    /\ pc[p] = "wpl_ret"
    /\ IF err[p] # "" THEN Fail(p, err[p]) ELSE Goto(p, "wpl_commit")
    /\ UNCHANGED <<servers, snapshot, now, doc, old, ctxDone, before>>
    /\ Quiet

\* WithPublishLock: tx.Commit(ctx), which also releases the lock
WplCommit(p) ==
    /\ pc[p] = "wpl_commit"
    /\ IF ctxDone[p] THEN Fail(p, "failed to commit transaction") ELSE Fail(p, "")
    /\ UNCHANGED <<servers, snapshot, now, doc, old, ctxDone, before>>
    /\ Quiet

\* WithPublishLock: tx.Commit(ctx) fails in storage
WplCommitFails(p) ==
    /\ pc[p] = "wpl_commit"
    /\ ~ctxDone[p]
    /\ Fail(p, "failed to commit transaction")
    /\ UNCHANGED <<servers, snapshot, now, doc, old, ctxDone, before>>
    /\ Quiet

\* the caller has the outcome; the publisher is free for the next request
Return(p) ==
    /\ pc[p] = "done"
    /\ pc' = [pc EXCEPT ![p] = "idle"]
    /\ doc' = [doc EXCEPT ![p] = NoDoc]
    /\ old' = [old EXCEPT ![p] = 0]
    /\ ctxDone' = [ctxDone EXCEPT ![p] = FALSE]
    /\ err' = [err EXCEPT ![p] = ""]
    /\ before' = [before EXCEPT ![p] = EmptyTable]
    /\ UNCHANGED <<servers, snapshot, now>>
    /\ Quiet

Step(p) ==
    \/ Cancel(p)
    \/ WplCtx(p)
    \/ WplBegin(p)
    \/ WplLock(p)
    \/ FnDup(p)
    \/ FnLatest(p)
    \/ CsCtx(p)
    \/ CsBegin(p)
    \/ CsUnmark(p)
    \/ CsInsert(p)
    \/ CsCommit(p)
    \/ CsCommitFails(p)
    \/ WplRet(p)
    \/ WplCommit(p)
    \/ WplCommitFails(p)
    \/ Return(p)

\* concurrent publishers
Next == \E p \in Procs : StartPublish(p, ConcVersions, MaxClock) \/ Step(p)

Spec == Init /\ [][Next]_vars

\* the statements of a running call: the goroutine runs and storage answers
Run(p) ==
    \/ WplCtx(p)
    \/ WplBegin(p)
    \/ WplLock(p)
    \/ FnDup(p)
    \/ FnLatest(p)
    \/ CsCtx(p)
    \/ CsBegin(p)
    \/ CsUnmark(p)
    \/ CsInsert(p)
    \/ CsCommit(p)
    \/ CsCommitFails(p)
    \/ WplRet(p)
    \/ WplCommit(p)
    \/ WplCommitFails(p)

\* one publisher, one publish after the other
NextSeq == StartPublish("p1", Versions, MaxSeq) \/ Step("p1")

SpecSeq == Init /\ [][NextSeq]_vars

\* ------------------------------------------------------------------ reads
\* The reads a client makes while publishes run.  Each is one statement on
\* the pool, outside any transaction: it sees committed rows only.
ReadOps == {"List", "GetByServerID", "GetAllVersionsByServerID"}

\* the outcomes of read op for entry arg on table T
ReadResults(T, op, arg) ==
    IF op = "List"
    THEN {List(T, FALSE, [nil |-> FALSE, Name |-> NameOf(arg)], 0, 0)}
    ELSE IF op = "GetByServerID" THEN GetByServerID(T, FALSE, arg)
    ELSE GetAllVersionsByServerID(T, FALSE, arg)

\* a statement that also sees what open CreateServer transactions have written
VisibleDirty ==
    LET unmarked == {old[p] : p \in {q \in Procs : pc[q] \in {"cs_insert", "cs_commit"}}}
        inserted == {p \in Procs : pc[p] = "cs_commit"}
    IN  [k \in DOMAIN servers \cup {doc[p].versionId : p \in inserted} |->
            IF \E p \in inserted : doc[p].versionId = k
            THEN doc[CHOOSE p \in inserted : doc[p].versionId = k]
            ELSE IF k \in unmarked THEN [servers[k] EXCEPT !.isLatest = FALSE]
            ELSE servers[k]]

\* the rows a statement run on the pool sees (read committed)
Visible == servers

Read ==
    /\ ConnsInUse < MaxConns
    /\ \E op \in ReadOps, arg \in Entries :
          \E r \in ReadResults(Visible, op, arg) :
              lastRead' = [op |-> op, arg |-> arg, res |-> r]
    /\ UNCHANGED <<pubVars, scan, upd, crowd>>

\* one publisher and a reader
NextRead == StartPublish("p1", ConcVersions, MaxClock) \/ Step("p1") \/ Read

SpecRead == Init /\ [][NextRead]_vars

\* ------------------------------------------------------------- operations
\* Calls of the store's operations by clients, on the tables publishes
\* leave, with contexts that are cancelled or not when the call is made.
OpFilters == {NilFilter, [nil |-> FALSE, IsLatest |-> TRUE]}
\* cursors as the caller sends them: none, an identifier, a malformed string
OpCursors == {0, 1, -1}
OpLimits == {0, 2}
OpIds == {1, 2}

\* a document without registry metadata (server.Meta == nil)
NoMetaDoc == [name |-> NameA, version |-> V100, remotes |-> {}]

\* the documents a caller passes to UpdateServer
OpDocs(T) ==
    {NoMetaDoc}
        \cup {[T[k] EXCEPT !.publishedAt = 1] : k \in DOMAIN T}
        \cup {[NoDoc EXCEPT !.name = NameA, !.version = V100, !.serverId = "e1",
                            !.versionId = k] : k \in OpIds}

\* List runs its query: the context check and uuid.Parse let it through
ListQueries(ctx, cursor) == ~ctx /\ (cursor = 0 \/ IsUuid(cursor))

\* UpdateServer runs its UPDATE
UpdateQueries(ctx, id, server) ==
    ~ctx /\ "versionId" \in DOMAIN server /\ server.versionId = id

\* the call op(arg) made with context state ctx ended with res,
\* having sent a statement to storage or not; pre is the table before it
Called(op, ctx, arg, res, queried) ==
    /\ pc["p1"] = "idle"
    /\ lastRead' = [op |-> op, ctx |-> ctx, arg |-> arg, res |-> res,
                    queried |-> queried, pre |-> servers]
    /\ UNCHANGED <<snapshot, now, pc, doc, old, ctxDone, err, before, scan, upd,
                   crowd>>

OpList ==
    /\ \E ctx \in BOOLEAN, f \in OpFilters, c \in OpCursors, l \in OpLimits :
          Called("List", ctx, [filter |-> f, cursor |-> c, limit |-> l],
                 List(servers, ctx, f, c, l), ListQueries(ctx, c))
    /\ UNCHANGED servers

OpGetByVersionID ==
    /\ \E ctx \in BOOLEAN, id \in OpIds :
          Called("GetByVersionID", ctx, id,
                 GetByVersionID(servers, ctx, id), ~ctx)
    /\ UNCHANGED servers

OpGetByServerID ==
    /\ \E ctx \in BOOLEAN, e \in Entries :
          \E r \in GetByServerID(servers, ctx, e) :
              Called("GetByServerID", ctx, e, r, ~ctx)
    /\ UNCHANGED servers

OpGetByServerIDAndVersion ==
    /\ \E ctx \in BOOLEAN, e \in Entries, v \in ConcVersions :
          \E r \in GetByServerIDAndVersion(servers, ctx, e, v) :
              Called("GetByServerIDAndVersion", ctx,
                     [serverID |-> e, version |-> v], r, ~ctx)
    /\ UNCHANGED servers

OpGetAllVersionsByServerID ==
    /\ \E ctx \in BOOLEAN, e \in Entries :
          \E r \in GetAllVersionsByServerID(servers, ctx, e) :
              Called("GetAllVersionsByServerID", ctx, e, r, ~ctx)
    /\ UNCHANGED servers

OpUpdateServer ==
    \E ctx \in BOOLEAN, id \in OpIds, d \in OpDocs(servers) :
        LET r == UpdateServer(servers, ctx, id, d)
        IN  /\ Called("UpdateServer", ctx, [id |-> id, server |-> d],
                      [err |-> r.err], UpdateQueries(ctx, id, d))
            /\ servers' = r.table

\* one publisher, and clients calling the store's operations while no
\* publish runs
NextOps ==
    \/ StartPublish("p1", ConcVersions, MaxClock)
    \/ Step("p1")
    \/ OpList
    \/ OpGetByVersionID
    \/ OpGetByServerID
    \/ OpGetByServerIDAndVersion
    \/ OpGetAllVersionsByServerID
    \/ OpUpdateServer

SpecOps == Init /\ [][NextOps]_vars

\* ------------------------------------------------------------------ edits
\* The update path: an editor reads a record by its version id, changes
\* its body and hands the whole document to UpdateServer.  It takes no
\* lock, and publishes may commit between its read and its write.
EditRead ==
    /\ upd = NoUpd
    /\ \E k \in DOMAIN servers :
          LET r == GetByVersionID(servers, FALSE, k)
          IN  r.err = "" /\ upd' = [id |-> k, doc |-> r.doc]
    /\ lastRead' = NoRead
    /\ UNCHANGED <<pubVars, scan, crowd>>

EditWrite ==
    /\ upd # NoUpd
    /\ LET r == UpdateServer(servers, FALSE, upd.id,
                             [upd.doc EXCEPT !.remotes = {"https://a"}])
       IN  servers' = r.table
    /\ upd' = NoUpd
    /\ lastRead' = NoRead
    /\ UNCHANGED <<snapshot, now, pc, doc, old, ctxDone, err, before, scan, crowd>>

\* one publisher and one editor
NextEdit ==
    \/ StartPublish("p1", ConcVersions, MaxClock)
    \/ Step("p1")
    \/ EditRead
    \/ EditWrite

SpecEdit == Init /\ [][NextEdit]_vars

\* ------------------------------------------------------------------- scan
\* A client pages through List: the first call has no cursor, every later
\* call passes the cursor the call before returned.
DigitChar(n) == AsciiOrder[n + 2]

\* a version string of its own for every row
Ver(i) == <<"1", ".", DigitChar(i \div 10), ".", DigitChar(i % 10)>>

\* the row with version id k, of entry e
Row(k, e, latest) ==
    [name |-> NameOf(e), version |-> Ver(k),
     remotes |-> IF k % 2 = 1 THEN {"https://a"} ELSE {},
     serverId |-> e, versionId |-> k, isLatest |-> latest,
     publishedAt |-> k, updatedAt |-> k]

\* Tables publishes can leave: the document of a row carries the row's key,
\* and every entry with rows has one latest row.
TablesOver(ids) ==
    {[k \in ids |-> Row(k, ent[k], k = lat[ent[k]])] :
        ent \in [ids -> Entries],
        lat \in [Entries -> ids \cup {0}]} 

WellFormed(T) ==
    \A e \in Entries :
        LET rows == {k \in DOMAIN T : T[k].serverId = e}
        IN  IF rows = {} THEN TRUE
            ELSE Cardinality({k \in rows : T[k].isLatest}) = 1

SmallTables ==
    UNION {{T \in TablesOver(ids) : WellFormed(T)} : ids \in SUBSET (1..MaxVid)}

\* ------------------------------------------------------------- progress
\* Calls that keep running, on a registry that already holds version 1.0.0
\* of one entry: the lock protocol does not depend on which version is
\* published, and one new version already gives the commit with and
\* without a previous latest row, the duplicate error of fn, the failed
\* lock statement and the failed commit.
LiveVersions == {V200}

InitLive ==
    /\ servers = [k \in {1} |-> [Row(1, "e1", TRUE) EXCEPT !.version = V100]]
    /\ snapshot = servers
    /\ now = 0
    /\ pc = [p \in Procs |-> "idle"]
    /\ doc = [p \in Procs |-> NoDoc]
    /\ old = [p \in Procs |-> 0]
    /\ ctxDone = [p \in Procs |-> FALSE]
    /\ err = [p \in Procs |-> ""]
    /\ before = [p \in Procs |-> EmptyTable]
    /\ lastRead = NoRead
    /\ scan = NoScan
    /\ upd = NoUpd
    /\ crowd = NoCrowd

NextLive ==
    \E p \in Procs : StartPublish(p, LiveVersions, MaxClock) \/ Step(p)

SpecLive ==
    InitLive /\ [][NextLive]_vars /\ \A p \in Procs : WF_vars(Run(p))

\* larger tables: rows 1..n, the entries alternating, the last row of each latest
BigTables ==
    {[k \in 1..n |->
        Row(k, IF k % 2 = 1 THEN "e1" ELSE "e2", k >= n - 1)] :
        n \in (MaxVid + 1)..MaxRows}

Filters ==
    {NilFilter, NoFilter,
     [nil |-> FALSE, Name |-> NameA],
     [nil |-> FALSE, IsLatest |-> TRUE],
     [nil |-> FALSE, SubstringName |-> <<98>>],
     [nil |-> FALSE, SubstringName |-> <<95>>],
     [nil |-> FALSE, RemoteURL |-> "https://a"],
     [nil |-> FALSE, UpdatedSince |-> 1],
     [nil |-> FALSE, Version |-> Ver(1)],
     [nil |-> FALSE, Name |-> NameAb, IsLatest |-> FALSE]}

InitList ==
    /\ servers \in SmallTables \cup BigTables
    /\ snapshot = servers
    /\ now = 0
    /\ pc = [p \in Procs |-> "idle"]
    /\ doc = [p \in Procs |-> NoDoc]
    /\ old = [p \in Procs |-> 0]
    /\ ctxDone = [p \in Procs |-> FALSE]
    /\ err = [p \in Procs |-> ""]
    /\ before = [p \in Procs |-> EmptyTable]
    /\ lastRead = NoRead
    /\ scan \in {[NoScan EXCEPT !.filter = f, !.limit = l] :
                    f \in Filters, l \in 0..MaxLimit}
    /\ upd = NoUpd
    /\ crowd = NoCrowd

\* one call of List by the scanning client
ListPage ==
    /\ ~scan.done
    /\ LET r == List(servers, FALSE, scan.filter, scan.cursor, scan.limit)
       IN  scan' = [scan EXCEPT
                      !.prev = scan.cursor,
                      !.cursor = r.nextCursor,
                      !.page = [i \in 1..Len(r.results) |-> r.results[i].versionId],
                      !.seen = scan.seen \o
                               [i \in 1..Len(r.results) |-> r.results[i].versionId],
                      !.next = r.nextCursor,
                      !.calls = scan.calls + 1,
                      !.start = IF scan.calls = 0 THEN servers ELSE scan.start,
                      !.done = (r.nextCursor = 0)]
    /\ UNCHANGED <<pubVars, lastRead, upd, crowd>>

NextList == ListPage

SpecList == InitList /\ [][NextList]_vars

\* A scan during which a publisher inserts rows: the tables leave version
\* ids free for the inserts, below, between and above the stored ones.
ScanFilters ==
    {NoFilter, [nil |-> FALSE, IsLatest |-> TRUE], [nil |-> FALSE, Name |-> NameA]}

InitScan ==
    /\ servers \in {T \in SmallTables :
                       Cardinality(DOMAIN T) \in 1..(MaxVid - MaxIns)}
    /\ snapshot = servers
    /\ now = 0
    /\ pc = [p \in Procs |-> "idle"]
    /\ doc = [p \in Procs |-> NoDoc]
    /\ old = [p \in Procs |-> 0]
    /\ ctxDone = [p \in Procs |-> FALSE]
    /\ err = [p \in Procs |-> ""]
    /\ before = [p \in Procs |-> EmptyTable]
    /\ lastRead = NoRead
    /\ scan \in {[NoScan EXCEPT !.filter = f, !.limit = l] :
                    f \in ScanFilters, l \in 1..2}
    /\ upd = NoUpd
    /\ crowd = NoCrowd

NextScan == StartPublish("p1", ConcVersions, MaxIns) \/ Step("p1") \/ ListPage

SpecScan == InitScan /\ [][NextScan]_vars

\* ------------------------------------------------------------------ store
\* CreateServer and UpdateServer called directly, one call at a time, with
\* documents of every shape: without registry metadata, with empty ids,
\* with the id of a stored row or of none.
ErrNoMeta == "server must have registry metadata with ServerID and VersionID"
ErrEmptyIds == "server must have both ServerID and VersionID in registry metadata"

\* a create that stores a document whose ids are empty
CreateServerEmptyIds(T, cancelled, server, oldLatestVersionID) ==
    IF cancelled THEN {[err |-> ErrCtx, table |-> T]}
    ELSE IF ~({"serverId", "versionId"} \subseteq DOMAIN server)
    THEN {[err |-> ErrNoMeta, table |-> T]}
    ELSE IF server.versionId \in DOMAIN T
    THEN {[err |-> "failed to insert server", table |-> T]}
    ELSE {[err |-> "", table |-> Insert(Unmark(T, oldLatestVersionID), server)]}

\* PostgreSQL.CreateServer as one call: the outcomes it can have, each the
\* error and the table it leaves (0 is the nil or empty oldLatestVersionID)
CreateServer(T, cancelled, server, oldLatestVersionID) ==
    IF cancelled THEN {[err |-> ErrCtx, table |-> T]}
    ELSE IF ~({"serverId", "versionId"} \subseteq DOMAIN server)
    THEN {[err |-> ErrNoMeta, table |-> T]}
    ELSE IF server.serverId = "" \/ server.versionId = 0
    THEN {[err |-> ErrEmptyIds, table |-> T]}
    ELSE {[err |-> e, table |-> T] :
             e \in {"failed to begin transaction", "failed to commit transaction"}}
         \cup
         (IF server.versionId \in DOMAIN T
          THEN {[err |-> "failed to insert server", table |-> T]}
          ELSE {[err |-> "",
                 table |-> Insert(Unmark(T, oldLatestVersionID), server)]})

\* CreateServer begins its transaction
CreateQueries(ctx, server) ==
    /\ ~ctx
    /\ {"serverId", "versionId"} \subseteq DOMAIN server
    /\ server.serverId # "" /\ server.versionId # 0

\* ids as callers send them: empty, stored or not
StoreIds == 0..MaxVid

\* oldLatestVersionID: nil, or the id of a row that may be stored
StoreOlds == {0, 1}

StoreDocs ==
    {NoMetaDoc}
        \cup {[NoDoc EXCEPT !.name = NameA, !.version = V100, !.serverId = e,
                            !.versionId = k, !.isLatest = TRUE] :
                 e \in {"", "e1"}, k \in StoreIds}

OpCreateServer ==
    \E ctx \in BOOLEAN, d \in StoreDocs, o \in StoreOlds :
        \E r \in CreateServer(servers, ctx, d, o) :
            /\ Called("CreateServer", ctx, [server |-> d, old |-> o],
                      [err |-> r.err], CreateQueries(ctx, d))
            /\ servers' = r.table

OpUpdateStored ==
    \E ctx \in BOOLEAN, id \in StoreIds, d \in StoreDocs :
        LET r == UpdateServer(servers, ctx, id, d)
        IN  /\ Called("UpdateServer", ctx, [id |-> id, server |-> d],
                      [err |-> r.err], UpdateQueries(ctx, id, d))
            /\ servers' = r.table

NextStore == OpCreateServer \/ OpUpdateStored

SpecStore == Init /\ [][NextStore]_vars

\* ------------------------------------------------------------------- pool
\* Any number of publishers of one name on the one pool.  The calls are
\* alike, so they are counted by the statement they are at: contexts stay
\* live and storage answers every statement it is given.
MaxCrowd == MaxConns + 1

\* pool connections in use: one per open WithPublishLock transaction, and
\* one more while the holder's CreateServer transaction is open
CrowdConns ==
    crowd.wpl_lock
        + (IF crowd.holder # "none" THEN 1 ELSE 0)
        + (IF crowd.holder = "cs_commit" THEN 1 ELSE 0)

CrowdFrame == UNCHANGED <<pubVars, lastRead, scan, upd>>

\* a request calls WithPublishLock
CrowdStart ==
    /\ crowd.started < MaxCrowd
    /\ crowd' = [crowd EXCEPT !.started = @ + 1, !.wpl_begin = @ + 1]
    /\ CrowdFrame

\* db.pool.Begin of WithPublishLock: waits for a free connection
CrowdWplBegin ==
    /\ crowd.wpl_begin > 0
    /\ CrowdConns < MaxConns
    /\ crowd' = [crowd EXCEPT !.wpl_begin = @ - 1, !.wpl_lock = @ + 1]
    /\ CrowdFrame

\* pg_advisory_xact_lock returns to one call when no other holds the lock;
\* fn then comes to CreateServer
CrowdWplLock ==
    /\ crowd.wpl_lock > 0
    /\ crowd.holder = "none"
    /\ crowd' = [crowd EXCEPT !.wpl_lock = @ - 1, !.holder = "cs_begin"]
    /\ CrowdFrame

\* db.pool.Begin of CreateServer: waits for a further free connection
CrowdCsBegin ==
    /\ crowd.holder = "cs_begin"
    /\ CrowdConns < MaxConns
    /\ crowd' = [crowd EXCEPT !.holder = "cs_commit"]
    /\ CrowdFrame

\* CreateServer commits and gives its connection back
CrowdCsCommit ==
    /\ crowd.holder = "cs_commit"
    /\ crowd' = [crowd EXCEPT !.holder = "wpl_commit"]
    /\ CrowdFrame

\* WithPublishLock commits: the lock and the connection are free again
CrowdWplCommit ==
    /\ crowd.holder = "wpl_commit"
    /\ crowd' = [crowd EXCEPT !.holder = "none"]
    /\ CrowdFrame

\* the statements of the calls that have begun
CrowdRun ==
    \/ CrowdWplBegin
    \/ CrowdWplLock
    \/ CrowdCsBegin
    \/ CrowdCsCommit
    \/ CrowdWplCommit

NextCrowd == CrowdStart \/ CrowdRun

SpecCrowd == Init /\ [][NextCrowd]_vars /\ WF_vars(CrowdRun)

\* ----------------------------------------------------------------- claims
LatestRows(T, e) == {k \in DOMAIN T : T[k].serverId = e /\ T[k].isLatest}
EntryRows(T, e) == {k \in DOMAIN T : T[k].serverId = e}

\* C1: in every committed state reached by publishes run under
\* WithPublishLock, at most one stored record of an entry has isLatest = true.
C1_AtMostOneLatest ==
    \A e \in Entries : Cardinality(LatestRows(servers, e)) <= 1

\* two records of one entry are stored, one of them latest
C1_Witness ==
    \E e \in Entries :
        /\ Cardinality(EntryRows(servers, e)) = 2
        /\ Cardinality(LatestRows(servers, e)) = 1

\* C2: two WithPublishLock calls for one name never have their callbacks
\* overlap: while one call is between the return of pg_advisory_xact_lock
\* and the end of its transaction, no other call for the name runs fn.
C2_SameNameExclusion ==
    \A p, q \in Procs :
        (/\ p # q
         /\ pc[p] \in {"fn_dup", "fn_latest", "cs_ctx", "cs_begin", "cs_unmark",
                       "cs_insert", "cs_commit"}
         /\ pc[q] \in {"fn_dup", "fn_latest", "cs_ctx", "cs_begin", "cs_unmark",
                       "cs_insert", "cs_commit", "wpl_ret", "wpl_commit"})
        => doc[p].name # doc[q].name

\* one call runs its CreateServer transaction while another call for the
\* same name waits for the lock
C2_Witness ==
    \E p, q \in Procs :
        /\ pc[p] = "cs_insert"
        /\ pc[q] = "wpl_lock"
        /\ ~ctxDone[q]
        /\ doc[p].name = doc[q].name

\* C3: calls for different names (their lock keys differ) do not wait for
\* each other: a call is kept waiting for the lock only by a call for the
\* same name that holds it, so two callbacks for different names run at
\* the same time.
C3_OtherNamesIndependent ==
    \A p \in Procs :
        (pc[p] = "wpl_lock" /\ ~ctxDone[p] /\ ~LockFree(p))
        => \E q \in Procs \ {p} :
              /\ pc[q] \in LockedStages
              /\ doc[q].name = doc[p].name

\* both callbacks are inside their CreateServer transactions, for two names
C3_Witness ==
    /\ pc["p1"] \in CsTxStages
    /\ pc["p2"] \in CsTxStages
    /\ doc["p1"].name # doc["p2"].name

\* the rows of the publisher's entry
Part(T, p) == [k \in EntryRows(T, doc[p].serverId) |-> T[k]]

\* C4: CreateServer is all or nothing.  When it has returned an error, the
\* rows are as they were when fn began (the previous latest still latest, no
\* new row); when it has returned nil, the previous latest is unmarked and
\* the new row is stored.
C4_CreateAllOrNothing ==
    \A p \in Procs :
        pc[p] = "wpl_ret" =>
            IF err[p] = ""
            THEN /\ doc[p].versionId \in DOMAIN servers
                 /\ servers[doc[p].versionId] = doc[p]
                 /\ old[p] # 0 => ~servers[old[p]].isLatest
                 /\ Part(servers, p) = Part(Insert(Unmark(before[p], old[p]), doc[p]), p)
            ELSE /\ Part(servers, p) = Part(before[p], p)
                 /\ old[p] # 0 => servers[old[p]].isLatest
                 /\ \A k \in DOMAIN servers : servers[k] # doc[p]

\* CreateServer has failed at its INSERT, on a version id that is stored,
\* after the UPDATE of the previous latest
C4_Witness ==
    \E p \in Procs :
        /\ pc[p] = "wpl_ret"
        /\ err[p] = "failed to insert server"
        /\ old[p] # 0
        /\ ~ctxDone[p]

Rank(v) ==
    IF v = V100alpha THEN 1
    ELSE IF v \in {V100, V100build} THEN 2
    ELSE IF v = V200 THEN 3
    ELSE IF v = V1000 THEN 4
    ELSE 0

\* C6: an entry has a latest record and both version strings are semantic
\* versions: the new record is latest, and the old latest unmarked, exactly
\* when the new version is strictly higher in precedence; otherwise the new
\* record is stored with isLatest = false and the old latest keeps its
\* flag.  With no latest record the new one is latest.
C6_SemverDecidesLatest ==
    \A p \in Procs :
        (pc[p] = "wpl_ret" /\ err[p] = "") =>
            LET new == doc[p].versionId
                lat == LatestRows(before[p], doc[p].serverId)
            IN  IF lat = {} THEN servers[new].isLatest
                ELSE \A k \in lat :
                       (Rank(before[p][k].version) > 0 /\ Rank(doc[p].version) > 0) =>
                           IF Rank(doc[p].version) > Rank(before[p][k].version)
                           THEN servers[new].isLatest /\ ~servers[k].isLatest
                           ELSE ~servers[new].isLatest /\ servers[k].isLatest

\* "1.0.0" has been published over the latest "1.0.0-alpha"
C6_Witness ==
    \E p \in Procs :
        /\ pc[p] = "wpl_ret"
        /\ err[p] = ""
        /\ doc[p].version = V100
        /\ old[p] # 0
        /\ before[p][old[p]].version = V100alpha

\* C7: a new version string that is no semantic version makes the new
\* record the latest of its entry and unmarks the previous latest, whatever
\* was published before.
C7_NonSemverBecomesLatest ==
    \A p \in Procs :
        (pc[p] = "wpl_ret" /\ err[p] = "" /\ Rank(doc[p].version) = 0) =>
            LatestRows(servers, doc[p].serverId) = {doc[p].versionId}

\* "v1.1" has been published to an entry with two records, the latest a
\* semantic version
C7_Witness ==
    \E p \in Procs :
        /\ pc[p] = "wpl_ret"
        /\ err[p] = ""
        /\ doc[p].version = Vv11
        /\ Cardinality(EntryRows(before[p], doc[p].serverId)) = 2
        /\ \E k \in LatestRows(before[p], doc[p].serverId) :
               Rank(before[p][k].version) > 0

\* the stored records of the publisher's entry that carry its version string
SameVersion(T, p) ==
    {k \in DOMAIN T : /\ T[k].serverId = doc[p].serverId
                      /\ T[k].version = doc[p].version}

\* C8: a publish of a version string that a stored record of the entry
\* carries fails with the duplicate-version error and changes no row; it
\* never reaches the resolver or CreateServer; no two stored records of an
\* entry share a version string, so of two concurrent publishes of one
\* version string at most one stores its record, and the other fails only
\* because the record was there when its fn began.
C8_DuplicateVersionRejected ==
    /\ \A j, k \in DOMAIN servers :
          (j # k /\ servers[j].serverId = servers[k].serverId)
              => servers[j].version # servers[k].version
    /\ \A p \in Procs :
          /\ pc[p] \in FnStages \ {"fn_dup"} => SameVersion(servers, p) = {}
          /\ (pc[p] \in LockedStages /\ SameVersion(before[p], p) # {}) =>
                /\ pc[p] \in {"fn_dup", "wpl_ret"}
                /\ Part(servers, p) = Part(before[p], p)
                /\ pc[p] = "wpl_ret" =>
                      err[p] \in {"invalid version: duplicate", ErrCtx}
          /\ err[p] = "invalid version: duplicate" =>
                /\ SameVersion(before[p], p) # {}
                /\ \A k \in DOMAIN servers : servers[k] # doc[p]

\* a publish has failed as a duplicate of the record that a concurrent
\* publish of the same version string stored
C8_Witness ==
    \E p, q \in Procs :
        /\ p # q
        /\ pc[p] = "done" /\ err[p] = "invalid version: duplicate"
        /\ pc[q] = "done" /\ err[q] = ""
        /\ doc[p].serverId = doc[q].serverId
        /\ doc[p].version = doc[q].version
        /\ doc[p].publishedAt < doc[q].publishedAt

\* the page size the scan's calls apply, and the version ids of the records
\* its filter matches, ascending
ScanLimit == IF scan.limit <= 0 THEN DefaultLimit ELSE scan.limit
Matching ==
    SortedSeq({k \in DOMAIN servers : Where(scan.filter, servers[k])})

\* C9: over a fixed table, calling List with an empty cursor and then with
\* each returned cursor returns the matching records once each in strictly
\* ascending version id order: what has been returned so far is a prefix
\* of the ascending sequence of the matching ids, the call that returns no
\* cursor completes it, and that call is at the latest call number
\* (N div P) + 1, also when N is a multiple of the page size P.
C9_PaginationExhaustive ==
    /\ \A i, j \in 1..Len(scan.seen) : i < j => scan.seen[i] < scan.seen[j]
    /\ scan.seen = Prefix(Matching, Len(scan.seen))
    /\ scan.done => scan.seen = Matching
    /\ scan.calls <= (Len(Matching) \div ScanLimit) + 1
    /\ scan.calls = (Len(Matching) \div ScanLimit) + 1 => scan.done

\* a scan of several full pages over a number of matching records that is
\* a multiple of the page size has ended with an empty page
C9_Witness ==
    /\ scan.done
    /\ scan.limit >= 1
    /\ Len(Matching) > 0
    /\ Len(Matching) % ScanLimit = 0
    /\ scan.calls >= 3
    /\ scan.page = <<>>

\* C10: a call of List returns a cursor exactly when its page holds as many
\* rows as the limit it applied, and the cursor is then the version id of
\* the last row of the page, which is that row's key; a shorter page, an
\* empty one included, comes with no cursor.
C10_CursorIffFullPage ==
    scan.calls > 0 =>
        LET keys == ListKeys(servers, scan.filter, scan.prev, scan.limit)
        IN  /\ scan.page = keys
            /\ scan.next # 0 <=> Len(scan.page) = ScanLimit
            /\ scan.next # 0 => scan.next = keys[Len(keys)]
            /\ Len(scan.page) < ScanLimit => scan.next = 0

\* a resumed call has returned a full page that is the rest of the table
C10_Witness ==
    /\ scan.calls = 2
    /\ scan.next # 0
    /\ Len(scan.page) = ScanLimit
    /\ scan.next = Matching[Len(Matching)]

\* C11: List with a non-empty cursor that is no well-formed identifier
\* fails with an error that is an ErrInvalidInput (by errors.Is, not by its
\* text), sends no query to storage and leaves the table as it was.
C11_MalformedCursorIsInvalidInput ==
    (/\ lastRead.op = "List"
     /\ ~lastRead.ctx
     /\ lastRead.arg.cursor # 0
     /\ ~IsUuid(lastRead.arg.cursor)) =>
        /\ Is(lastRead.res.err, ErrInvalidInput)
        /\ lastRead.res.results = <<>>
        /\ ~lastRead.queried
        /\ servers = lastRead.pre

\* the document of an UpdateServer call carries no version id, or another
\* one than the call's id
Mismatched(arg) ==
    "versionId" \notin DOMAIN arg.server \/ arg.server.versionId # arg.id

\* C12: UpdateServer with a document whose version id is missing or differs
\* from the id argument fails with an ErrInvalidInput, sends no statement
\* and leaves every row as it was, whether or not rows with either id exist.
C12_UpdateMismatchRejected ==
    (/\ lastRead.op = "UpdateServer"
     /\ ~lastRead.ctx
     /\ Mismatched(lastRead.arg)) =>
        /\ Is(lastRead.res.err, ErrInvalidInput)
        /\ ~lastRead.queried
        /\ servers = lastRead.pre

\* an update of a stored row with the document of another stored row
C12_Witness ==
    /\ lastRead.op = "UpdateServer"
    /\ ~lastRead.ctx
    /\ "versionId" \in DOMAIN lastRead.arg.server
    /\ lastRead.arg.server.versionId # lastRead.arg.id
    /\ {lastRead.arg.id, lastRead.arg.server.versionId} \subseteq DOMAIN servers

\* C13: an operation called with a cancelled context returns ctx.Err()
\* itself, sends nothing to storage and leaves the table as it was;
\* WithPublishLock then begins no transaction, takes no lock and does not
\* run fn, and CreateServer begins no transaction.
C13_CancelledContextFirst ==
    /\ [](lastRead.op # "none" /\ lastRead.ctx =>
             /\ lastRead.res.err = ErrCtx
             /\ ~lastRead.queried
             /\ servers = lastRead.pre)
    /\ [][\A p \in Procs :
            /\ (pc[p] = "wpl_ctx" /\ ctxDone[p] /\ pc'[p] # pc[p]) =>
                   /\ pc'[p] = "done"
                   /\ err'[p] = ErrCtx
                   /\ servers' = servers
            /\ (pc[p] = "cs_ctx" /\ ctxDone[p] /\ pc'[p] # pc[p]) =>
                   /\ pc'[p] = "wpl_ret"
                   /\ err'[p] = ErrCtx
                   /\ servers' = servers]_vars

\* UpdateServer was called with a cancelled context and a document that
\* does not carry the id
C13_Witness ==
    /\ lastRead.op = "UpdateServer"
    /\ lastRead.ctx
    /\ Mismatched(lastRead.arg)
    /\ lastRead.res.err = ErrCtx

\* C14: a call waiting for the lock of its name gets it (or is cancelled):
\* however the holder's call ends, by commit, by an error of fn or by a
\* failed commit, its transaction ends and the lock with it, and nothing
\* keeps the lock once the holder has returned.
C14_LockReleasedOnEveryExit ==
    \A p \in Procs :
        (pc[p] = "wpl_lock" /\ ~ctxDone[p]) ~> (pc[p] = "fn_dup" \/ ctxDone[p])

\* a call holds the lock of a name whose previous holder returned an error
\* of CreateServer and has not been collected yet
C14_Witness ==
    \E p, q \in Procs :
        /\ p # q
        /\ pc[p] = "fn_dup"
        /\ pc[q] = "done"
        /\ err[q] = "failed to insert server"
        /\ doc[p].name = doc[q].name
        /\ doc[p].publishedAt < doc[q].publishedAt

\* C15: when fn returns an error WithPublishLock returns that error as it
\* is and does not commit; fn starts only when the lock statement has
\* succeeded, so once per call; when the lock statement fails the call
\* returns that failure without running fn and without trying again.
C15_FnErrorReturnedUnchanged ==
    [][\A p \in Procs :
        /\ (pc[p] = "wpl_ret" /\ err[p] # "" /\ pc'[p] # pc[p]) =>
               pc'[p] = "done" /\ err'[p] = err[p]
        /\ (pc'[p] = "fn_dup" /\ pc[p] # "fn_dup") =>
               pc[p] = "wpl_lock" /\ ~ctxDone[p] /\ LockFree(p)
        /\ (pc'[p] = "wpl_lock" /\ pc[p] # "wpl_lock") => pc[p] = "wpl_begin"
        /\ (pc[p] = "wpl_lock" /\ ctxDone[p] /\ pc'[p] # pc[p]) =>
               pc'[p] = "done" /\ err'[p] = "failed to acquire publish lock"
      ]_vars

\* a call has returned the INSERT failure of CreateServer that fn returned
C15_Witness ==
    \E p \in Procs :
        /\ pc[p] = "done"
        /\ ~ctxDone[p]
        /\ err[p] = "failed to insert server"
        /\ doc[p].versionId \in DOMAIN servers

\* C16: GetAllVersionsByServerID returns the stored records of the entry,
\* each once and no other, by publishedAt descending, and ErrNotFound
\* exactly when no stored record belongs to the entry.
C16_AllVersionsOfEntry ==
    (lastRead.op = "GetAllVersionsByServerID" /\ ~lastRead.ctx) =>
        LET rows == {k \in DOMAIN servers : servers[k].serverId = lastRead.arg}
            docs == lastRead.res.docs
        IN  /\ lastRead.res.err \in {"", ErrNotFound}
            /\ lastRead.res.err = ErrNotFound <=> rows = {}
            /\ Len(docs) = Cardinality(rows)
            /\ {docs[i] : i \in 1..Len(docs)} = {servers[k] : k \in rows}
            /\ \A i, j \in 1..Len(docs) :
                  i < j => docs[i].publishedAt >= docs[j].publishedAt

\* the two records of an entry were returned, the later published first
C16_Witness ==
    /\ lastRead.op = "GetAllVersionsByServerID"
    /\ ~lastRead.ctx
    /\ Len(lastRead.res.docs) = 2
    /\ lastRead.res.docs[1].publishedAt > lastRead.res.docs[2].publishedAt
    /\ lastRead.res.docs[1].versionId < lastRead.res.docs[2].versionId

\* C17: in every committed table that publishes reach, an entry with a
\* record has exactly one record with isLatest = true, and GetByServerID
\* returns that record and never ErrNotFound for it.
C17_ExactlyOneLatest ==
    \A e \in Entries :
        EntryRows(servers, e) # {} =>
            /\ Cardinality(LatestRows(servers, e)) = 1
            /\ GetByServerID(servers, FALSE, e) =
                  {[err |-> "", doc |-> servers[k]] : k \in LatestRows(servers, e)}

\* an entry has two records and the latest is the one published first
C17_Witness ==
    \E e \in Entries :
        \E k, j \in EntryRows(servers, e) :
            /\ servers[k].isLatest
            /\ ~servers[j].isLatest
            /\ servers[k].publishedAt < servers[j].publishedAt

\* the document of p's call is a stored row (whatever a later publish has
\* made of its isLatest flag)
Stored(p) ==
    \E k \in DOMAIN servers :
        [servers[k] EXCEPT !.isLatest = doc[p].isLatest] = doc[p]

\* C18: what fn's CreateServer writes is one atomic unit with the
\* transaction that holds the lock: when WithPublishLock has returned, the
\* new row is stored exactly when it returned nil; after an error the
\* table holds nothing of the call.
C18_PublishCommitsWithLock ==
    \A p \in Procs :
        pc[p] = "done" => (Stored(p) <=> err[p] = "")

\* C19: with updates running beside publishes no two stored records of an
\* entry are latest at once, also when an update of the latest record races
\* with the publish that unmarks it.
C19_AtMostOneLatestWithUpdates ==
    \A j, k \in DOMAIN servers :
        (/\ j # k
         /\ servers[j].serverId = servers[k].serverId
         /\ servers[j].isLatest) => ~servers[k].isLatest

\* the version ids of the rows that were stored when the scan made its
\* first call and matched its filter then
StartMatching ==
    {k \in DOMAIN scan.start : Where(scan.filter, scan.start[k])}

\* the pages of a scan do not overlap and a resumed call returns only rows
\* above the cursor it was given
PagesAdvance ==
    /\ \A i, j \in 1..Len(scan.seen) : i < j => scan.seen[i] < scan.seen[j]
    /\ (scan.calls > 0 /\ scan.prev # 0) =>
           \A i \in 1..Len(scan.page) : scan.page[i] > scan.prev

\* C20 as stated: under concurrent inserts the ids returned across the
\* pages increase strictly, a resumed call returns only rows above its
\* cursor, and every row that was there when the scan started has been
\* returned when the scan ends.
C20_ScanUnderInserts ==
    /\ PagesAdvance
    /\ scan.done => StartMatching \subseteq Range(scan.seen)

\* C20, amended: the same, for the rows that still match the filter: a row
\* that was latest when the scan started and was unmarked by a publish
\* before the scan reached it is not returned to a latest-only scan.
C20_ScanUnderInsertsStillMatching ==
    /\ PagesAdvance
    /\ scan.done =>
          {k \in StartMatching : Where(scan.filter, servers[k])}
              \subseteq Range(scan.seen)

\* a scan has ended without the row that a publish inserted, while it ran,
\* under a version id below its cursor
C20_Witness ==
    /\ scan.done
    /\ scan.calls >= 2
    /\ \E k \in DOMAIN servers \ DOMAIN scan.start :
          /\ Where(scan.filter, servers[k])
          /\ k \notin Range(scan.seen)
          /\ \E i \in 1..Len(scan.seen) : k < scan.seen[i]

\* ------------------------------------------------------------------ C21
\* t contains s, letter case ignored
Occurs(s, t) ==
    \E i \in 0..(Len(t) - Len(s)) :
        \A j \in 1..Len(s) : Fold(t[i + j]) = Fold(s[j])

\* the filter predicates as the specification names them: exact name,
\* substring of the name without regard to case, exact URL of one remote,
\* updated after a time, exact version string, latest flag
Qualifies(filter, d) ==
    /\ Has(filter, "Name") => d.name = filter.Name
    /\ Has(filter, "SubstringName") => Occurs(filter.SubstringName, d.name)
    /\ Has(filter, "RemoteURL") => filter.RemoteURL \in d.remotes
    /\ Has(filter, "UpdatedSince") => d.updatedAt > filter.UpdatedSince
    /\ Has(filter, "Version") => d.version = filter.Version
    /\ Has(filter, "IsLatest") => d.isLatest = filter.IsLatest

\* the ids of the stored rows that qualify and lie above the cursor
Qualifying(filter, cursor) ==
    {k \in DOMAIN servers :
        Qualifies(filter, servers[k]) /\ (cursor # 0 => k > cursor)}

\* C21: a list call returns exactly the first min(limit', k) of the k
\* qualifying rows above the cursor, in ascending order of version id,
\* limit' being the limit or 10 when the limit is not positive, and the
\* table is what it was before the call.
C21_ListReturnsFirstQualifying ==
    scan.calls > 0 =>
        /\ scan.page =
              Prefix(SortedSeq(Qualifying(scan.filter, scan.prev)),
                     IF scan.limit > 0 THEN scan.limit ELSE DefaultLimit)
        /\ servers = scan.start

\* ------------------------------------------------------------------ C22
\* GetByServerIDAndVersion(r's entry, v) finds the row k
Finds(k, v) ==
    \E res \in GetByServerIDAndVersion(servers, FALSE, servers[k].serverId, v) :
        res.err = "" /\ res.doc = servers[k]

\* C22: a list filtered by the exact version string v, without cursor and
\* with a limit that covers the table, returns a stored record if and only
\* if its version string is v, which is if and only if the lookup by entry
\* id and v finds it.
C22_VersionFilterMatchesStoredVersion ==
    (/\ scan.calls = 1
     /\ Has(scan.filter, "Version")
     /\ (IF scan.limit > 0 THEN scan.limit ELSE DefaultLimit)
            >= Cardinality(DOMAIN servers)) =>
        \A k \in DOMAIN servers :
            /\ k \in Range(scan.page) <=> servers[k].version = scan.filter.Version
            /\ k \in Range(scan.page) <=> Finds(k, scan.filter.Version)

\* ------------------------------------------------------------------ C23
\* C23: an update that succeeds has replaced the document of the row keyed
\* by its id, and of that row only: the other rows and the set of stored
\* ids are as before; an update never adds a row; an update that reaches
\* storage and finds no row of that id reports NotFound; an update that
\* fails leaves the table as it was.
C23_UpdateReplacesOneRow ==
    lastRead.op = "UpdateServer" =>
        LET id  == lastRead.arg.id
            pre == lastRead.pre
        IN  /\ DOMAIN servers = DOMAIN pre
            /\ lastRead.res.err = "" =>
                  /\ id \in DOMAIN pre
                  /\ servers[id] = lastRead.arg.server
                  /\ \A k \in DOMAIN pre \ {id} : servers[k] = pre[k]
            /\ lastRead.res.err # "" => servers = pre
            /\ (lastRead.queried /\ id \notin DOMAIN pre) =>
                  lastRead.res.err = ErrNotFound

\* an update replaced the document of one of two stored rows by another one
C23_Witness ==
    /\ lastRead.op = "UpdateServer"
    /\ lastRead.res.err = ""
    /\ Cardinality(DOMAIN lastRead.pre) >= 2
    /\ servers[lastRead.arg.id] # lastRead.pre[lastRead.arg.id]

\* ------------------------------------------------------------------ C24
\* no two rows of one entry carry the same version string
UniqueVersions(T) ==
    \A j, k \in DOMAIN T :
        (T[j].serverId = T[k].serverId /\ T[j].version = T[k].version) => j = k

\* C24: after any publishes and updates no two stored records of one entry
\* carry the same version string, and an update leaves the version string
\* and the entry id of every stored record as they were published.
C24_VersionsUniqueAndFixed ==
    /\ UniqueVersions(servers)
    /\ lastRead.op = "UpdateServer" =>
          \A k \in DOMAIN lastRead.pre :
              /\ servers[k].version = lastRead.pre[k].version
              /\ servers[k].serverId = lastRead.pre[k].serverId

\* ------------------------------------------------------------------ C25
\* C25: with the pool bounded at MaxConns connections, publishers whose
\* contexts stay live and whose statements storage answers can all
\* complete: in no state do WithPublishLock transactions, holding the lock
\* or waiting for it, hold every connection of the pool while the lock
\* holder's CreateServer waits for one more to begin its transaction.
C25_PoolNeverHeldByWaiters ==
    ~(crowd.holder = "cs_begin" /\ CrowdConns = MaxConns)

\* ------------------------------------------------------------------ C26
\* the document of row k carries registry metadata with the version id k
Keyed(T, k) ==
    /\ "versionId" \in DOMAIN T[k]
    /\ T[k].versionId = k

\* what List answers for a call, beside the keys of the rows it selected
CursorIsLastKey(f, l) ==
    LET r    == List(servers, FALSE, f, 0, l)
        keys == ListKeys(servers, f, 0, l)
    IN  /\ r.nextCursor # 0 => r.nextCursor = keys[Len(keys)]
        /\ (Len(keys) > 0 /\ Len(keys) >= l) => r.nextCursor # 0

\* C26: after any creates and updates every stored document carries
\* registry metadata whose version id is not empty and is the key of its
\* row; a create given a document without metadata, or with an empty entry
\* id or version id, fails before it touches storage; and so the cursor
\* List takes from the last document of a full page is the key of the last
\* row of the page.
C26_EmbeddedVersionIdIsKey ==
    /\ \A k \in DOMAIN servers : k # 0 /\ Keyed(servers, k)
    /\ (/\ lastRead.op = "CreateServer"
        /\ ~lastRead.ctx
        /\ \/ ~({"serverId", "versionId"} \subseteq DOMAIN lastRead.arg.server)
           \/ lastRead.arg.server.serverId = ""
           \/ lastRead.arg.server.versionId = 0) =>
          /\ lastRead.res.err # ""
          /\ ~lastRead.queried
          /\ servers = lastRead.pre
    /\ \A f \in {NilFilter, [nil |-> FALSE, IsLatest |-> TRUE]}, l \in 1..2 :
          CursorIsLastKey(f, l)

\* two rows are stored, an update has just replaced the document of one
\* of them, and a page of one row ends with a cursor
C26_Witness ==
    /\ Cardinality(DOMAIN servers) >= 2
    /\ lastRead.op = "UpdateServer"
    /\ lastRead.res.err = ""
    /\ servers # lastRead.pre
    /\ List(servers, FALSE, NilFilter, 0, 1).nextCursor # 0

====
